---------------------------- MODULE Spec2Model ----------------------------
(***************************************************************************)
(* A model of the attachment-figure extension of rhino-editor              *)
(* (src/src/exports/extensions/attachment.ts): the attribute codec         *)
(* (canPreview, renderHTML, addAttributes), the node view's image-load     *)
(* write-back (addNodeView) and the setAttachment command.                 *)
(*                                                                         *)
(* The document is the ProseMirror tree the command edits: a sequence of   *)
(* top-level blocks (paragraphs, attachment galleries, and                 *)
(* attachment figures), addressed by ProseMirror's integer positions: a    *)
(* node occupies one position for its opening token, its content, and one  *)
(* position for its closing token; a character occupies one position.      *)
(*                                                                         *)
(* Text (captions, paragraph text, content types) is a sequence of         *)
(* one-character strings, so that prefixes, escaping and position          *)
(* arithmetic are computed and not assumed.                                *)
(***************************************************************************)
EXTENDS Integers, Sequences, FiniteSets, TLC

VARIABLES
  doc,       \* state.doc: the sequence of top-level block nodes
  sel,       \* state.selection: [anchor, head]
  loads,     \* image loads in flight, one per img.onload registered by a node view
  nextNid,   \* the identity the next created figure node gets
  log,       \* the attachments given to setAttachment so far, in call order
  lastCmd,   \* what the last setAttachment call saw and did
  lastLoad,  \* what the last img.onload callback saw and did
  codec      \* the codec's current input and output (pure functions under check)

vars == <<doc, sel, loads, nextNid, log, lastCmd, lastLoad, codec>>

---------------------------------------------------------------------------
(* Bounds of the model *)

\* the number of characters the document holds at most
MaxText == 2
\* the number of figure nodes setAttachment creates at most
MaxFigs == 2
\* the number of attachments one setAttachment call is given at most
MaxBatch == 2
\* the number of figure nodes created while the views are followed
MaxViewFigs == 2
\* the number of figure nodes a row of commands creates at most
MaxChainFigs == 4
\* the number of paragraphs of the document a row of commands starts from
MaxChainBlocks == 2
\* the number of pieces a content type is made of at most
MaxTokens == 4

---------------------------------------------------------------------------
(* JavaScript values *)

Undefined == "undefined"
Null == "null"

\* "" as a sequence of characters
Empty == <<>>

\* the characters a user types
Chars == {"a"}

Min(a, b) == IF a < b THEN a ELSE b
Max(a, b) == IF a < b THEN b ELSE a

RECURSIVE SumSeq(_)
SumSeq(s) == IF s = <<>> THEN 0 ELSE Head(s) + SumSeq(Tail(s))

StartsWith(s, p) == Len(s) >= Len(p) /\ SubSeq(s, 1, Len(p)) = p

---------------------------------------------------------------------------
(* Content types, as character sequences *)

S_image == <<"i","m","a","g","e">>
S_slash == <<"/">>
S_gif == <<"g","i","f">>
S_png == <<"p","n","g">>
S_jp == <<"j","p">>
S_e == <<"e">>
S_g == <<"g">>
S_x == <<"x">>
S_svg == <<"s","v","g","+","x","m","l">>

CT_png == S_image \o S_slash \o S_png
CT_gif == S_image \o S_slash \o S_gif
CT_jpeg == S_image \o S_slash \o S_jp \o S_e \o S_g
CT_jpg == S_image \o S_slash \o S_jp \o S_g
CT_pdf == <<"a","p","p","l","i","c","a","t","i","o","n","/","p","d","f">>
CT_mp4 == <<"v","i","d","e","o","/","m","p","4">>
\* the literal fallback of contentType.parseHTML
CT_octet == <<"a","p","p","l","i","c","a","t","i","o","n","/","o","c","t","e","t","-","s","t","r","e","a","m">>

---------------------------------------------------------------------------
(* Regular expressions, matched the way String.prototype.match does for a  *)
(* pattern without flags: a node is [k, s, rs]; MatchEnds is the set of    *)
(* offsets at which a match of re that starts at offset i can end.         *)

Lit(s) == [k |-> "lit", s |-> s, rs |-> <<>>]
Cat(rs) == [k |-> "cat", s |-> <<>>, rs |-> rs]
Alt(rs) == [k |-> "alt", s |-> <<>>, rs |-> rs]
Opt(r) == [k |-> "opt", s |-> <<>>, rs |-> <<r>>]
Bol == [k |-> "bol", s |-> <<>>, rs |-> <<>>]
Eol == [k |-> "eol", s |-> <<>>, rs |-> <<>>]

RECURSIVE MatchEnds(_, _, _)
RECURSIVE MatchCat(_, _, _)
MatchCat(rs, s, starts) ==
  IF rs = <<>> THEN starts
  ELSE MatchCat(Tail(rs), s, UNION {MatchEnds(Head(rs), s, i) : i \in starts})

MatchEnds(re, s, i) ==
  CASE re.k = "lit" ->
         IF StartsWith(SubSeq(s, i + 1, Len(s)), re.s) THEN {i + Len(re.s)} ELSE {}
    [] re.k = "bol" -> IF i = 0 THEN {i} ELSE {}
    [] re.k = "eol" -> IF i = Len(s) THEN {i} ELSE {}
    [] re.k = "cat" -> MatchCat(re.rs, s, {i})
    [] re.k = "alt" -> UNION {MatchEnds(re.rs[n], s, i) : n \in 1..Len(re.rs)}
    [] re.k = "opt" -> {i} \cup MatchEnds(re.rs[1], s, i)

\* s.match(re) != null: some match starts somewhere in s
Matches(re, s) == \E i \in 0..Len(s) : MatchEnds(re, s, i) # {}

\* /^image(\/(gif|png|jpe?g)|$)/ with the subtype anchored at the end of input
IsPreviewableAnchored ==
  Cat(<<Bol, Lit(S_image),
        Alt(<<Cat(<<Lit(S_slash),
                    Alt(<<Lit(S_gif), Lit(S_png), Cat(<<Lit(S_jp), Opt(Lit(S_e)), Lit(S_g)>>)>>),
                    Eol>>),
              Eol>>)>>)

\* const isPreviewable = /^image(\/(gif|png|jpe?g)|$)/
IsPreviewable ==
  Cat(<<Bol, Lit(S_image),
        Alt(<<Cat(<<Lit(S_slash),
                    Alt(<<Lit(S_gif), Lit(S_png), Cat(<<Lit(S_jp), Opt(Lit(S_e)), Lit(S_g)>>)>>)>>),
              Eol>>)>>)

\* a Maybe<string> that holds no string: told from every sequence of characters
NoString == <<Undefined>>

\* canPreview(previewable, contentType): previewable || contentType?.match(isPreviewable) != null
CanPreview(previewable, contentType) ==
  previewable \/ (contentType # NoString /\ Matches(IsPreviewable, contentType))

\* toType(content, previewable)
ToType(content, previewable) ==
  IF previewable THEN "attachment--preview"
  ELSE IF content # "" THEN "attachment--content"
  ELSE "attachment--file"

---------------------------------------------------------------------------
(* The attribute codec: renderHTML and the parseHTML rules of addAttributes *)

\* an attribute value as getAttribute returns it: absent (null), "" or text
\* that is malformed JSON, or the text JSON.stringify produced for obj
Absent == [kind |-> "absent", obj |-> <<>>]
EmptyString == [kind |-> "empty", obj |-> <<>>]
Malformed == [kind |-> "malformed", obj |-> <<>>]

\* JSON.stringify(obj): keys whose value is undefined are left out
JsonStringify(obj) ==
  [kind |-> "json",
   obj |-> [k \in {k \in DOMAIN obj : obj[k] # Undefined} |-> obj[k]]]

\* JSON.parse(text): throws a SyntaxError on "" and on malformed text
JsonParse(raw) == [threw |-> raw.kind # "json", obj |-> raw.obj]

\* element.getAttribute(name) || ""
OrEmptyString(raw) == IF raw.kind \in {"absent", "empty"} THEN EmptyString ELSE raw

\* element.getAttribute(name) || "{}"
OrEmptyObject(raw) == IF raw.kind \in {"absent", "empty"} THEN JsonStringify(<<>>) ELSE raw

\* obj[key] of a parsed object: undefined when the key is missing
Get(obj, key) == IF key \in DOMAIN obj THEN obj[key] ELSE Undefined

\* JavaScript truthiness of a string-like value
Truthy(v) == v # Null /\ v # Undefined /\ v # "" /\ Empty # v

\* the serialization of text as innerHTML: &, < and > are escaped
RECURSIVE EscapeHTML(_)
EscapeHTML(t) ==
  IF t = <<>> THEN <<>>
  ELSE (CASE Head(t) = "&" -> <<"&","a","m","p",";">>
          [] Head(t) = "<" -> <<"&","l","t",";">>
          [] Head(t) = ">" -> <<"&","g","t",";">>
          [] OTHER -> <<Head(t)>>) \o EscapeHTML(Tail(t))

\* the defaults of addAttributes
DefaultAttrs ==
  [attachmentId |-> Null, caption |-> Empty, progress |-> 100, sgid |-> "",
   src |-> "", height |-> "", width |-> "", contentType |-> Empty,
   fileName |-> "", fileSize |-> "", content |-> "", url |-> "",
   previewable |-> FALSE]

AttrNames == DOMAIN DefaultAttrs

\* const attachmentAttrs = { caption, contentType, content, filename: fileName, ... }
AttachmentAttrs(a) ==
  [caption |-> a.caption, contentType |-> a.contentType, content |-> a.content,
   filename |-> a.fileName, filesize |-> a.fileSize, height |-> a.height,
   width |-> a.width, sgid |-> a.sgid, url |-> a.url, src |-> a.src]

\* renderHTML({ node }): the figure element emitted for a node with attributes
\* node.attrs and caption text node.text (the content hole 0 of figcaption).
\* wrapper holds the attributes of an enclosing action-text-attachment
\* element: renderHTML emits none.
RenderHTML(node) ==
  LET a == node.attrs IN
  [class |-> <<"attachment", ToType(a.content, CanPreview(a.previewable, a.contentType))>>,
   trixContentType |-> a.contentType,
   trixAttachment |-> JsonStringify(AttachmentAttrs(a)),
   trixAttributes |-> JsonStringify([caption |-> a.caption, presentation |-> "gallery"]),
   img |-> IF a.content = ""
           THEN [present |-> TRUE, src |-> IF a.url # "" THEN a.url ELSE a.src,
                 width |-> a.width, height |-> a.height]
           ELSE [present |-> FALSE, src |-> "", width |-> "", height |-> ""],
   figcaption |-> [present |-> TRUE, innerHTML |-> EscapeHTML(node.text)],
   wrapper |-> <<>>]

\* findAttribute(element, name): the attribute of the enclosing
\* action-text-attachment element, else the field of the data-trix-attachment
\* JSON, else null
FindAttribute(el, name) ==
  IF name \in DOMAIN el.wrapper /\ Truthy(el.wrapper[name]) THEN el.wrapper[name]
  ELSE IF el.trixAttachment.kind = "json" /\ name \in DOMAIN el.trixAttachment.obj
       THEN el.trixAttachment.obj[name]
       ELSE Null

\* contentType.parseHTML: [threw, value]
ParseContentType(el) ==
  LET explicit == FindAttribute(el, "content-type")
      parsed == JsonParse(OrEmptyString(el.trixAttachment))
      field == Get(parsed.obj, "contentType")
  IN IF Truthy(explicit) THEN [threw |-> FALSE, value |-> explicit]
     ELSE IF parsed.threw THEN [threw |-> TRUE, value |-> Undefined]
     ELSE IF Truthy(field) THEN [threw |-> FALSE, value |-> field]
     ELSE [threw |-> FALSE, value |-> CT_octet]

\* caption.parseHTML
ParseCaption(el) ==
  IF el.figcaption.present /\ el.figcaption.innerHTML # Empty
  THEN el.figcaption.innerHTML
  ELSE FindAttribute(el, "caption")

\* content.parseHTML; an element that renderHTML emitted has no
\* action-text-attachment ancestor, so closest(...)?.innerHTML is undefined
ParseContent(el) ==
  LET found == FindAttribute(el, "content") IN
  IF Truthy(found) THEN found
  ELSE IF "innerHTML" \in DOMAIN el.wrapper /\ Truthy(el.wrapper.innerHTML)
       THEN el.wrapper.innerHTML
       ELSE ""

\* previewable.parseHTML: [threw, value]
ParsePreviewable(el) ==
  LET parsed == JsonParse(OrEmptyObject(el.trixAttachment)) IN
  [threw |-> parsed.threw, value |-> Get(parsed.obj, "previewable")]

\* the value each parseHTML rule of addAttributes gives for the element; an
\* attribute without a rule is read with element.getAttribute(name), and the
\* figure renderHTML emits carries no attribute of that name
ParsedValue(el, name) ==
  CASE name = "caption" -> ParseCaption(el)
    [] name = "sgid" -> FindAttribute(el, "sgid")
    [] name = "src" -> FindAttribute(el, "src")
    [] name = "height" -> FindAttribute(el, "height")
    [] name = "width" -> FindAttribute(el, "width")
    [] name = "contentType" -> ParseContentType(el).value
    [] name = "fileName" -> FindAttribute(el, "filename")
    [] name = "fileSize" -> FindAttribute(el, "filesize")
    [] name = "content" -> ParseContent(el)
    [] name = "url" -> FindAttribute(el, "url")
    [] name = "previewable" -> ParsePreviewable(el).value
    [] OTHER -> Null

\* the attributes of the node parsed from the element: a rule that gives null
\* or undefined leaves the attribute at its default
ParseHTML(el) ==
  [name \in AttrNames |->
     LET v == ParsedValue(el, name) IN
     IF v = Null \/ v = Undefined THEN DefaultAttrs[name] ELSE v]

---------------------------------------------------------------------------
(* The document tree and its positions *)

Paragraph == "paragraph"
Gallery == "attachment-gallery"
Figure == "attachment-figure"

\* schema.nodes.paragraph.create() with the given text
ParagraphNode(text) ==
  [type |-> Paragraph, nid |-> 0, attrs |-> DefaultAttrs, text |-> text, kids |-> <<>>]

\* schema.nodes["attachment-gallery"].create({}, figures)
GalleryNode(figures) ==
  [type |-> Gallery, nid |-> 0, attrs |-> DefaultAttrs, text |-> <<>>, kids |-> figures]

\* schema.nodes["attachment-figure"].create(attachment, caption ? [text] : []):
\* every attribute the attachment does not define takes its default
FigureNode(attachment, nid) ==
  [type |-> Figure, nid |-> nid,
   attrs |-> [n \in AttrNames |->
                IF n \in DOMAIN attachment THEN attachment[n] ELSE DefaultAttrs[n]],
   text |-> IF "caption" \in DOMAIN attachment /\ Truthy(attachment.caption)
            THEN attachment.caption ELSE <<>>,
   kids |-> <<>>]

\* node.nodeSize
NodeSize(n) ==
  2 + Len(n.text) + SumSeq([i \in 1..Len(n.kids) |-> 2 + Len(n.kids[i].text)])

\* fragment.size
FragSize(nodes) == SumSeq([i \in 1..Len(nodes) |-> NodeSize(nodes[i])])

\* the position before the i-th node of a fragment, relative to its start
StartOf(nodes, i) == FragSize(SubSeq(nodes, 1, i - 1))

\* the number of nodes of the fragment that end at or before offset p
IndexAt(nodes, p) ==
  Cardinality({i \in 1..Len(nodes) : StartOf(nodes, i) + NodeSize(nodes[i]) <= p})

\* the nodes of the fragment that offset p lies strictly inside
Around(nodes, p) ==
  {i \in 1..Len(nodes) : StartOf(nodes, i) < p /\ p < StartOf(nodes, i) + NodeSize(nodes[i])}

\* doc.resolve(pos): depth is the number of ancestors below the document;
\* at depth 0, bi blocks end before pos; at depth 1 pos is inside block bi, at
\* text offset off (a textblock) or with ki children before it (a gallery);
\* at depth 2 pos is at text offset off of child ki of gallery bi
Resolve(d, pos) ==
  LET top == Around(d, pos) IN
  IF top = {} THEN [depth |-> 0, bi |-> IndexAt(d, pos), ki |-> 0, off |-> 0]
  ELSE LET bi == CHOOSE i \in top : TRUE
           rel == pos - StartOf(d, bi) - 1
           kids == d[bi].kids
           in == Around(kids, rel)
       IN IF d[bi].type # Gallery
          THEN [depth |-> 1, bi |-> bi, ki |-> 0, off |-> rel]
          ELSE IF in = {}
               THEN [depth |-> 1, bi |-> bi, ki |-> IndexAt(kids, rel), off |-> 0]
               ELSE LET ki == CHOOSE k \in in : TRUE IN
                    [depth |-> 2, bi |-> bi, ki |-> ki,
                     off |-> rel - StartOf(kids, ki) - 1]

\* $pos.node(1)?.type.name: undefined when pos is between top-level blocks
Node1Type(d, r) == IF r.depth = 0 THEN Undefined ELSE d[r.bi].type

\* $pos.end(): the position at the end of the content of $pos.parent
EndOf(d, r) ==
  CASE r.depth = 0 -> FragSize(d)
    [] r.depth = 1 -> StartOf(d, r.bi) + NodeSize(d[r.bi]) - 1
    [] OTHER -> StartOf(d, r.bi) + 1 + StartOf(d[r.bi].kids, r.ki)
                + NodeSize(d[r.bi].kids[r.ki]) - 1

\* whether pos is inside inline content: a paragraph, or a figure's caption
InText(d, pos) ==
  LET r == Resolve(d, pos) IN
  \/ r.depth = 2
  \/ r.depth = 1 /\ d[r.bi].type # Gallery

\* the positions a text cursor can be at
TextPositions(d) == {p \in 0..FragSize(d) : InText(d, p)}

\* the positions inside the caption of a figure
CaptionPositions(d) ==
  {p \in TextPositions(d) :
     LET r == Resolve(d, p) IN r.depth = 2 \/ d[r.bi].type = Figure}

\* the figure nodes of the document: [bi, ki] with ki = 0 for a top-level figure
FigurePaths(d) ==
  {[bi |-> b, ki |-> 0] : b \in {i \in 1..Len(d) : d[i].type = Figure}}
  \cup UNION {{[bi |-> b, ki |-> k] : k \in 1..Len(d[b].kids)} : b \in 1..Len(d)}

FigureAtPath(d, path) == IF path.ki = 0 THEN d[path.bi] ELSE d[path.bi].kids[path.ki]

\* the position before the figure at the path
PathPos(d, path) ==
  IF path.ki = 0 THEN StartOf(d, path.bi)
  ELSE StartOf(d, path.bi) + 1 + StartOf(d[path.bi].kids, path.ki)

AllFigures(d) == {FigureAtPath(d, path) : path \in FigurePaths(d)}

Nids(d) == {f.nid : f \in AllFigures(d)}

---------------------------------------------------------------------------
(* Transaction steps.  A step is [doc, from, oldSize, newSize]: the new     *)
(* document and the step map of the ReplaceStep that tr.insert and          *)
(* tr.replaceWith build for a slice of closed block nodes.  A block placed  *)
(* inside inline content closes the textblock around the position and, when *)
(* text follows the position, reopens a node of the same type and           *)
(* attributes for it.                                                       *)

Splice(nodes, i, j, new) == SubSeq(nodes, 1, i) \o new \o SubSeq(nodes, j, Len(nodes))

\* the node with its text cut to the characters before offset o
LeftPart(node, o) == [node EXCEPT !.text = SubSeq(node.text, 1, o)]

\* the node reopened for the characters after offset o
RightPart(node, o, fresh) ==
  [node EXCEPT !.text = SubSeq(node.text, o + 1, Len(node.text)),
               !.nid = IF node.type = Figure THEN fresh ELSE 0]

\* nodes placed at text offset o of the i-th node of a fragment
SplitInto(nodes, i, o, new, fresh) ==
  IF o = Len(nodes[i].text)
  THEN Splice(nodes, i, i + 1, new)
  ELSE Splice(nodes, i - 1, i + 1,
              <<LeftPart(nodes[i], o)>> \o new \o <<RightPart(nodes[i], o, fresh)>>)

\* tr.insert(pos, nodes) for figure nodes
InsertStep(d, pos, nodes, fresh) ==
  LET r == Resolve(d, pos)
      size == FragSize(nodes)
      atEnd == r.off = Len(IF r.depth = 2 THEN d[r.bi].kids[r.ki].text ELSE d[r.bi].text)
  IN CASE r.depth = 0 ->
            [doc |-> Splice(d, r.bi, r.bi + 1, nodes),
             from |-> pos, oldSize |-> 0, newSize |-> size]
       [] r.depth = 1 /\ d[r.bi].type = Gallery ->
            [doc |-> [d EXCEPT ![r.bi].kids = Splice(@, r.ki, r.ki + 1, nodes)],
             from |-> pos, oldSize |-> 0, newSize |-> size]
       [] r.depth = 1 /\ d[r.bi].type # Gallery ->
            [doc |-> SplitInto(d, r.bi, r.off, nodes, fresh),
             from |-> pos,
             oldSize |-> IF atEnd THEN 1 ELSE 0,
             newSize |-> IF atEnd THEN 1 + size ELSE size + 2]
       [] r.depth = 2 ->
            [doc |-> [d EXCEPT ![r.bi].kids = SplitInto(@, r.ki, r.off, nodes, fresh)],
             from |-> pos,
             oldSize |-> IF atEnd THEN 1 ELSE 0,
             newSize |-> IF atEnd THEN 1 + size ELSE size + 2]

\* tr.replaceWith(from, to, nodes) with to inside a top-level textblock and
\* from in the same textblock or right before it
ReplaceWithStep(d, from, to, nodes, fresh) ==
  LET rf == Resolve(d, from)
      rt == Resolve(d, to)
      node == d[rt.bi]
      size == FragSize(nodes)
      atEnd == rt.off = Len(node.text)
      right == IF atEnd THEN <<>> ELSE <<RightPart(node, rt.off, fresh)>>
      left == IF rf.depth = 0 THEN <<>> ELSE <<LeftPart(node, rf.off)>>
  IN [doc |-> Splice(d, rt.bi - 1, rt.bi + 1, left \o nodes \o right),
      from |-> from,
      oldSize |-> (to - from) + (IF atEnd THEN 1 ELSE 0),
      newSize |-> size + Len(left) + Len(right)]

\* mapping.map(pos) through the step, with the default association 1
MapPos(step, p) ==
  IF p < step.from THEN p
  ELSE IF p = step.from THEN (IF step.oldSize = 0 THEN p + step.newSize ELSE p)
  ELSE IF p <= step.from + step.oldSize THEN step.from + step.newSize
  ELSE p + step.newSize - step.oldSize

\* Selection.near($pos, -1): the position itself when it is in inline
\* content, else the nearest text position before it, else the nearest after
Near(d, pos) ==
  LET tp == TextPositions(d)
      before == {p \in tp : p < pos}
      after == {p \in tp : p > pos}
  IN IF pos \in tp THEN pos
     ELSE IF before # {} THEN CHOOSE p \in before : \A q \in before : q <= p
     ELSE CHOOSE p \in after : \A q \in after : p <= q

\* selectionToInsertionEnd(tr, tr.steps.length - 1, -1): the cursor goes to
\* the end of the range the last step inserted
SelectionToInsertionEnd(step) ==
  LET end == Near(step.doc, step.from + step.newSize) IN
  [anchor |-> end, head |-> end]

\* the selection of a transaction that sets none: mapped through the step
MapSelection(s, step) ==
  [anchor |-> Near(step.doc, MapPos(step, s.anchor)),
   head |-> Near(step.doc, MapPos(step, s.head))]

---------------------------------------------------------------------------
(* The node view (addNodeView) *)

\* the widths and heights an image reports as naturalWidth / naturalHeight
NaturalSizes == {[width |-> "640", height |-> "480"]}

\* addNodeView registers img.onload when the node is previewable and a
\* dimension is unset:  canPreview(previewable, contentType) && (!width || !height)
RegistersLoad(attrs) ==
  CanPreview(attrs.previewable, attrs.contentType) /\ (attrs.width = "" \/ attrs.height = "")

\* The view object addNodeView returns is { dom, contentDOM } without an
\* update method: the editor keeps the view of a node while its type and
\* attributes are the same (a caption edit goes through contentDOM) and
\* otherwise destroys it and calls addNodeView again for the new node.  The
\* image of a destroyed view keeps loading; its onload is no longer live.
ViewSync(dOld, dNew, ls) ==
  LET kept == {f.nid : f \in {g \in AllFigures(dNew) :
                                \E o \in AllFigures(dOld) : o.nid = g.nid /\ o.attrs = g.attrs}}
      built == {f \in AllFigures(dNew) : f.nid \notin kept}
  IN {[l EXCEPT !.live = l.live /\ l.nid \in kept] : l \in ls}
     \cup {[nid |-> f.nid, attrs |-> f.attrs, live |-> TRUE] : f \in {g \in built : RegistersLoad(g.attrs)}}

\* undefined where a position is expected: no position of any document
UndefinedPos == 0 - 1

\* getPos(): the position of the view's node; undefined once the view is destroyed
GetPos(d, l) ==
  IF l.live /\ l.nid \in Nids(d)
  THEN PathPos(d, CHOOSE path \in FigurePaths(d) : FigureAtPath(d, path).nid = l.nid)
  ELSE UndefinedPos

\* tr.setNodeMarkup(pos, undefined, attrs): [threw, doc]; throws when there is
\* no node at pos, keeps the node's type and content
SetNodeMarkup(d, pos, attrs) ==
  LET at == {path \in FigurePaths(d) : PathPos(d, path) = pos}
  IN IF at = {} THEN [threw |-> TRUE, doc |-> d]
     ELSE LET path == CHOOSE q \in at : TRUE IN
          [threw |-> FALSE,
           doc |-> IF path.ki = 0 THEN [d EXCEPT ![path.bi].attrs = attrs]
                   ELSE [d EXCEPT ![path.bi].kids[path.ki].attrs = attrs]]

\* the attributes img.onload writes, without the spread of node.attrs
OnloadAttrsNoSpread(captured, width, height) ==
  [DefaultAttrs EXCEPT !.height = height, !.width = width]

\* { ...node.attrs, height: height, width: width } with node the node the
\* view was created for
OnloadAttrs(captured, width, height) ==
  [captured EXCEPT !.height = height, !.width = width]

\* the records of the last command and the last load, kept for one step
NoCmd ==
  [branch |-> "none", doc |-> <<>>, sel |-> [anchor |-> 0, head |-> 0], nodes |-> <<>>]

NoLoad ==
  [fired |-> FALSE, nid |-> 0, deleted |-> FALSE, threw |-> FALSE,
   dispatched |-> FALSE, before |-> DefaultAttrs, after |-> DefaultAttrs,
   docBefore |-> <<>>]

\* img.onload of one image load in flight
ImgOnload(l, width, height) ==
  LET pos == GetPos(doc, l)
      res == SetNodeMarkup(doc, pos, OnloadAttrs(l.attrs, width, height))
      node == CHOOSE f \in AllFigures(doc) : f.nid = l.nid
      after == CHOOSE f \in AllFigures(res.doc) : f.nid = l.nid
  IN /\ doc' = res.doc
     /\ loads' = ViewSync(doc, res.doc, loads \ {l})
     /\ lastLoad' = [fired |-> TRUE, nid |-> l.nid,
                     deleted |-> l.nid \notin Nids(doc),
                     threw |-> res.threw,
                     dispatched |-> ~res.threw,
                     before |-> IF l.nid \in Nids(doc) THEN node.attrs ELSE DefaultAttrs,
                     after |-> IF l.nid \in Nids(doc) THEN after.attrs ELSE DefaultAttrs,
                     docBefore |-> doc]
     /\ lastCmd' = NoCmd
     /\ UNCHANGED <<sel, nextNid, log, codec>>

---------------------------------------------------------------------------
(* The setAttachment command *)

\* the attachments the command is given: an image still uploading, without
\* dimensions, and a finished file upload with a caption
ImageAttachment ==
  [attachmentId |-> "upload-1", contentType |-> CT_png, progress |-> 0,
   fileName |-> "a.png", src |-> "blob:1"]

FileAttachment ==
  [attachmentId |-> "upload-2", contentType |-> CT_pdf, caption |-> <<"c">>,
   fileName |-> "b.pdf", sgid |-> "sgid-2", url |-> "/files/2"]

Attachments == {ImageAttachment, FileAttachment}

\* Array.isArray(options) ? options : [].concat(options): one attachment or several
Options == UNION {[1..n -> Attachments] : n \in 1..MaxBatch}

From(s) == Min(s.anchor, s.head)
To(s) == Max(s.anchor, s.head)

\* currentSelection.node(1).type.name === "attachment-gallery"
IsInGalleryCurrent(d, anchor) == Node1Type(d, Resolve(d, anchor)) = Gallery

\* state.selection.anchor - 2 < 0 ? 0 : state.selection.anchor - 2
Before(anchor) == IF anchor - 2 < 0 THEN 0 ELSE anchor - 2

\* the adjacency check that is never true
IsInGalleryAfterNever(d, anchor) == FALSE

\* nodeBefore.node(1)?.type.name === "attachment-gallery"
IsInGalleryAfter(d, anchor) == Node1Type(d, Resolve(d, Before(anchor))) = Gallery

\* the backtrack that is 2 in both cases
BacktrackAlways(isInGalleryCurrent) == 2

\* const backtrack = isInGalleryCurrent ? 0 : 2
Backtrack(isInGalleryCurrent) == IF isInGalleryCurrent THEN 0 ELSE 2

\* attachments.map((attachment) => schema.nodes["attachment-figure"].create(...))
AttachmentNodes(attachments, nid) ==
  [i \in 1..Len(attachments) |-> FigureNode(attachments[i], nid + i - 1)]

\* the three blocks the command puts in place of the selection
NewGallery(nodes) == <<ParagraphNode(<<>>), GalleryNode(nodes), ParagraphNode(<<>>)>>

\* the branch the command takes
Branch(d, s) ==
  IF IsInGalleryCurrent(d, s.anchor) THEN "current"
  ELSE IF IsInGalleryAfter(d, s.anchor) THEN "after"
  ELSE "new"

\* the step of the transaction the command builds
SetAttachmentStep(d, s, attachments, nid) ==
  LET nodes == AttachmentNodes(attachments, nid)
      fresh == nid + Len(attachments)
      isInGalleryCurrent == IsInGalleryCurrent(d, s.anchor)
      isInGallery == isInGalleryCurrent \/ IsInGalleryAfter(d, s.anchor)
      end == EndOf(d, Resolve(d, s.anchor))
  IN IF isInGallery
     THEN InsertStep(d, end - Backtrack(isInGalleryCurrent), nodes, fresh)
     ELSE ReplaceWithStep(d, From(s) - 1, To(s), NewGallery(nodes), fresh)

\* editor.commands.setAttachment(options), dispatched, and the node views the
\* editor then creates for the new figure nodes
SetAttachment(attachments) ==
  LET step == SetAttachmentStep(doc, sel, attachments, nextNid)
      isInGallery == IsInGalleryCurrent(doc, sel.anchor) \/ IsInGalleryAfter(doc, sel.anchor)
  IN /\ doc' = step.doc
     /\ sel' = IF isInGallery THEN MapSelection(sel, step) ELSE SelectionToInsertionEnd(step)
     /\ loads' = ViewSync(doc, step.doc, loads)
     /\ nextNid' = nextNid + Len(attachments)
                   + (IF nextNid + Len(attachments) \in Nids(step.doc) THEN 1 ELSE 0)
     /\ log' = log \o attachments
     /\ lastCmd' = [branch |-> Branch(doc, sel), doc |-> doc, sel |-> sel,
                    nodes |-> AttachmentNodes(attachments, nextNid)]
     /\ lastLoad' = NoLoad
     /\ UNCHANGED codec

---------------------------------------------------------------------------
(* What the user and the upload do to the document between commands *)

\* the user puts the text cursor somewhere
SetSelection(pos) ==
  /\ sel # [anchor |-> pos, head |-> pos]
  /\ sel' = [anchor |-> pos, head |-> pos]
  /\ lastCmd' = NoCmd
  /\ lastLoad' = NoLoad
  /\ UNCHANGED <<doc, loads, nextNid, log, codec>>

\* the number of characters in the document
TextTotal(d) ==
  SumSeq([i \in 1..Len(d) |->
            Len(d[i].text) + SumSeq([k \in 1..Len(d[i].kids) |-> Len(d[i].kids[k].text)])])

InsertChar(text, o, c) == SubSeq(text, 1, o) \o <<c>> \o SubSeq(text, o + 1, Len(text))

\* the user types a character at the cursor: into a paragraph, or into the
\* figcaption of a figure (the contentDOM of its view)
TypeChar(c) ==
  LET r == Resolve(doc, sel.anchor) IN
  /\ TextTotal(doc) < MaxText
  /\ doc' = IF r.depth = 2
            THEN [doc EXCEPT ![r.bi].kids[r.ki].text = InsertChar(@, r.off, c)]
            ELSE [doc EXCEPT ![r.bi].text = InsertChar(@, r.off, c)]
  /\ sel' = [anchor |-> sel.anchor + 1, head |-> sel.head + 1]
  /\ loads' = ViewSync(doc, doc', loads)
  /\ lastCmd' = NoCmd
  /\ lastLoad' = NoLoad
  /\ UNCHANGED <<nextNid, log, codec>>

\* the user deletes a figure node; a gallery left without children goes with it
DeleteFigure(path) ==
  LET lone == path.ki # 0 /\ Len(doc[path.bi].kids) = 1
      new == IF path.ki = 0 \/ lone THEN Splice(doc, path.bi - 1, path.bi + 1, <<>>)
             ELSE [doc EXCEPT ![path.bi].kids = Splice(@, path.ki - 1, path.ki + 1, <<>>)]
      step == [doc |-> new,
               from |-> IF lone THEN StartOf(doc, path.bi) ELSE PathPos(doc, path),
               oldSize |-> IF lone THEN NodeSize(doc[path.bi])
                           ELSE NodeSize(FigureAtPath(doc, path)),
               newSize |-> 0]
  IN /\ doc' = new
     /\ sel' = MapSelection(sel, step)
     /\ loads' = ViewSync(doc, new, loads)
     /\ lastCmd' = NoCmd
  /\ lastLoad' = NoLoad
  /\ UNCHANGED <<nextNid, log, codec>>

\* the attribute update of a finished upload: full progress, the sgid and the url
Patched(attrs) ==
  IF attrs.progress < 100
  THEN {[attrs EXCEPT !.progress = 100, !.sgid = "sgid-1", !.url = "/files/1"]}
  ELSE {}

\* the upload of a figure's file sets its attributes through setNodeMarkup
UpdateAttributes(path, attrs) ==
  /\ doc' = SetNodeMarkup(doc, PathPos(doc, path), attrs).doc
  /\ loads' = ViewSync(doc, doc', loads)
  /\ lastCmd' = NoCmd
  /\ lastLoad' = NoLoad
  /\ UNCHANGED <<sel, nextNid, log, codec>>

---------------------------------------------------------------------------
(* The editor: a new document holds one empty paragraph with the cursor in it *)

NoCodec == [fn |-> "none", done |-> FALSE, arg |-> <<>>, res |-> <<>>]

Init ==
  /\ doc = <<ParagraphNode(<<>>)>>
  /\ sel = [anchor |-> 1, head |-> 1]
  /\ loads = {}
  /\ nextNid = 1
  /\ log = <<>>
  /\ lastCmd = NoCmd
  /\ lastLoad = NoLoad
  /\ codec = NoCodec

\* the user edits text around the command
Next ==
  \/ \E attachments \in Options :
       nextNid + Len(attachments) - 1 <= MaxFigs /\ SetAttachment(attachments)
  \/ \E pos \in TextPositions(doc) : SetSelection(pos)
  \/ \E c \in Chars : TypeChar(c)

Spec == Init /\ [][Next]_vars

\* the life of the figures' views: one image is inserted at a time, its
\* caption is edited, its upload finishes, figures are deleted, images load
NextView ==
  \/ nextNid <= MaxViewFigs /\ SetAttachment(<<ImageAttachment>>)
  \/ \E pos \in CaptionPositions(doc) : SetSelection(pos)
  \/ \E c \in Chars : sel.anchor \in CaptionPositions(doc) /\ TypeChar(c)
  \/ \E path \in FigurePaths(doc) : DeleteFigure(path)
  \/ \E path \in FigurePaths(doc) :
       \E attrs \in Patched(FigureAtPath(doc, path).attrs) : UpdateAttributes(path, attrs)
  \/ \E l \in loads : \E size \in NaturalSizes : ImgOnload(l, size.width, size.height)

SpecView == Init /\ [][NextView]_vars

---------------------------------------------------------------------------
(* Commands in a row: a document of paragraphs without a gallery, the       *)
(* cursor in an empty paragraph, and then nothing but setAttachment calls,  *)
(* each from the selection the call before left                             *)

ChainTexts == {<<>>, <<"a">>, <<"a", "b">>}

ChainDocs ==
  UNION {[1..n -> {ParagraphNode(t) : t \in ChainTexts}] : n \in 1..MaxChainBlocks}

InitChain ==
  /\ doc \in ChainDocs
  /\ \E pos \in TextPositions(doc) :
       /\ doc[Resolve(doc, pos).bi].text = <<>>
       /\ sel = [anchor |-> pos, head |-> pos]
  /\ loads = {}
  /\ nextNid = 1
  /\ log = <<>>
  /\ lastCmd = NoCmd
  /\ lastLoad = NoLoad
  /\ codec = NoCodec

NextChain ==
  \E attachments \in Options :
    nextNid + Len(attachments) - 1 <= MaxChainFigs /\ SetAttachment(attachments)

SpecChain == InitChain /\ [][NextChain]_vars

---------------------------------------------------------------------------
(* The codec's functions, applied to inputs drawn from bounded sets *)

\* content types: every concatenation of at most MaxTokens of these pieces
Tokens == {S_image, S_slash, S_gif, S_png, S_jp \o S_g, S_jp \o S_e \o S_g, S_jp, S_x, S_svg}

RECURSIVE Flatten(_)
Flatten(ts) == IF ts = <<>> THEN <<>> ELSE Head(ts) \o Flatten(Tail(ts))

ContentTypes == {Flatten(ts) : ts \in UNION {[1..n -> Tokens] : n \in 0..MaxTokens}}

CanPreviewInputs ==
  {[previewable |-> p, contentType |-> ct] : p \in BOOLEAN, ct \in ContentTypes \cup {NoString}}

\* figure elements as an external producer or renderHTML may leave them
ParseInputs ==
  {[class |-> <<"attachment">>, trixContentType |-> Empty, trixAttachment |-> raw,
    trixAttributes |-> Absent,
    img |-> [present |-> FALSE, src |-> "", width |-> "", height |-> ""],
    figcaption |-> [present |-> TRUE, innerHTML |-> Empty],
    wrapper |-> w]
     : raw \in {Absent, EmptyString, Malformed, JsonStringify(<<>>),
                JsonStringify([contentType |-> CT_mp4]),
                JsonStringify([contentType |-> Empty, sgid |-> "sgid-1"])},
       w \in {<<>>, [n \in {"content-type"} |-> CT_png], [n \in {"content-type"} |-> Empty]}}

\* nodes with every attribute at its default or at another valid value
RoundTripInputs ==
  {[attrs |-> [attachmentId |-> id, caption |-> cap, progress |-> pr, sgid |-> sg,
               src |-> "", height |-> dim.height, width |-> dim.width,
               contentType |-> ct, fileName |-> file.name, fileSize |-> file.size,
               content |-> con, url |-> url, previewable |-> pv],
    text |-> cap]
     : id \in {Null, "upload-1"}, cap \in {Empty, <<"c">>, <<"a", "&", "b">>},
       pr \in {100, 50}, sg \in {"", "sgid-1"},
       dim \in {[width |-> "", height |-> ""], [width |-> "640", height |-> "480"]},
       ct \in {Empty, CT_png, CT_pdf},
       file \in {[name |-> "", size |-> ""], [name |-> "a.png", size |-> "1024"]},
       con \in {"", "<p>card</p>"}, url \in {"", "/files/1"}, pv \in BOOLEAN}

InitCodec ==
  /\ doc = <<ParagraphNode(<<>>)>>
  /\ sel = [anchor |-> 1, head |-> 1]
  /\ loads = {}
  /\ nextNid = 1
  /\ log = <<>>
  /\ lastCmd = NoCmd
  /\ lastLoad = NoLoad
  /\ \/ \E arg \in CanPreviewInputs :
          codec = [fn |-> "canPreview", done |-> FALSE, arg |-> arg, res |-> <<>>]
     \/ \E arg \in ParseInputs :
          codec = [fn |-> "parseContentType", done |-> FALSE, arg |-> arg, res |-> <<>>]
     \/ \E arg \in RoundTripInputs :
          codec = [fn |-> "roundTrip", done |-> FALSE, arg |-> arg, res |-> <<>>]

ApplyCanPreview ==
  /\ codec.fn = "canPreview" /\ ~codec.done
  /\ codec' = [codec EXCEPT !.done = TRUE,
                            !.res = CanPreview(codec.arg.previewable, codec.arg.contentType)]
  /\ UNCHANGED <<doc, sel, loads, nextNid, log, lastCmd, lastLoad>>

ApplyParseContentType ==
  /\ codec.fn = "parseContentType" /\ ~codec.done
  /\ codec' = [codec EXCEPT !.done = TRUE, !.res = ParseContentType(codec.arg)]
  /\ UNCHANGED <<doc, sel, loads, nextNid, log, lastCmd, lastLoad>>

ApplyRoundTrip ==
  /\ codec.fn = "roundTrip" /\ ~codec.done
  /\ codec' = [codec EXCEPT !.done = TRUE, !.res = ParseHTML(RenderHTML(codec.arg))]
  /\ UNCHANGED <<doc, sel, loads, nextNid, log, lastCmd, lastLoad>>

NextCodec == ApplyCanPreview \/ ApplyParseContentType \/ ApplyRoundTrip

SpecCodec == InitCodec /\ [][NextCodec]_vars

---------------------------------------------------------------------------
(* Properties of the setAttachment command *)

\* the characters of the nodes in document order, those of the nodes `skip` left out
RECURSIVE CharsOf(_, _)
CharsOf(nodes, skip) ==
  IF nodes = <<>> THEN <<>>
  ELSE LET n == Head(nodes) IN
       (IF n.nid \in skip THEN <<>> ELSE n.text \o CharsOf(n.kids, skip))
         \o CharsOf(Tail(nodes), skip)

\* the nodes of the given type among the blocks of the document
BlocksOfType(d, type) == {i \in 1..Len(d) : d[i].type = type}

\* the block the text cursor of the last command was in
CursorBlock == Resolve(lastCmd.doc, lastCmd.sel.anchor).bi

\* C1: when setAttachment finds no adjacent gallery, the three blocks
\* [empty paragraph, gallery of the input attachments in input order, empty
\* paragraph] stand in the document, the cursor is at their end (in the last
\* of them or at the start of the text that follows), and no character
\* outside the prior selection range is removed
C1_NewGalleryReplacesSelectionOnly ==
  lastCmd.branch = "new" =>
    /\ \E i \in 1..(Len(doc) - 2) :
         /\ SubSeq(doc, i, i + 2) = NewGallery(lastCmd.nodes)
         /\ sel.anchor \in {StartOf(doc, i + 3) - 1, StartOf(doc, i + 3) + 1}
         /\ sel.head = sel.anchor
    /\ CharsOf(doc, {lastCmd.nodes[i].nid : i \in DOMAIN lastCmd.nodes})
         = CharsOf(lastCmd.doc, {})

\* C2: when the cursor is in the paragraph right after a gallery and the check
\* two positions before it finds the gallery, the new figures become the last
\* children of that gallery and nothing else of the document changes: no new
\* gallery, and the paragraph keeps its content whatever its length
C2_ParagraphAfterGalleryAppends ==
  (/\ lastCmd.branch = "after"
   /\ lastCmd.doc[CursorBlock].type = Paragraph
   /\ CursorBlock > 1
   /\ lastCmd.doc[CursorBlock - 1].type = Gallery)
  => doc = [lastCmd.doc EXCEPT ![CursorBlock - 1].kids = @ \o lastCmd.nodes]

\* the cursor of the last command was inside the last figure of a gallery and
\* the command was given one attachment
InLastFigure ==
  /\ lastCmd.branch = "current"
  /\ Resolve(lastCmd.doc, lastCmd.sel.anchor).depth = 2
  /\ Resolve(lastCmd.doc, lastCmd.sel.anchor).ki = Len(lastCmd.doc[CursorBlock].kids)
  /\ Len(lastCmd.nodes) = 1

\* C3: with the cursor inside the last figure of a gallery, setAttachment with
\* one attachment makes it the last child of that gallery, after the existing
\* figures; the galleries and the paragraphs are as many as before and the
\* existing figures keep their content
C3_LastFigureAppends ==
  InLastFigure =>
    /\ doc[CursorBlock].kids = lastCmd.doc[CursorBlock].kids \o lastCmd.nodes
    /\ Len(doc) = Len(lastCmd.doc)
    /\ \A i \in 1..Len(doc) : i # CursorBlock => doc[i] = lastCmd.doc[i]
    /\ Cardinality(BlocksOfType(doc, Gallery)) = Cardinality(BlocksOfType(lastCmd.doc, Gallery))
    /\ Cardinality(BlocksOfType(doc, Paragraph)) = Cardinality(BlocksOfType(lastCmd.doc, Paragraph))

\* a figure with a caption was appended after a figure holding the cursor
C3_Witness ==
  /\ InLastFigure
  /\ lastCmd.doc[CursorBlock].kids[1].text # <<>>
  /\ Len(doc[CursorBlock].kids) = 2
  /\ doc[CursorBlock].kids[2].nid = lastCmd.nodes[1].nid

\* C10: after one or more setAttachment calls in a row, from a document
\* without a gallery and the cursor in an empty paragraph, the document has
\* exactly one gallery, no figure outside it, and the children of the gallery
\* are all the inserted attachments in insertion order
C10_ChainKeepsOneGallery ==
  log # <<>> =>
    /\ Cardinality(BlocksOfType(doc, Gallery)) = 1
    /\ BlocksOfType(doc, Figure) = {}
    /\ \A i \in BlocksOfType(doc, Gallery) : doc[i].kids = AttachmentNodes(log, 1)

\* three commands in a row have put their figures into the one gallery
C10_Witness ==
  /\ lastCmd.branch = "after"
  /\ Len(log) >= 3
  /\ Len(lastCmd.nodes) = 1
  /\ Len(lastCmd.doc[CursorBlock - 1].kids) = Len(log) - 1
  /\ \E i \in BlocksOfType(doc, Gallery) : Len(doc[i].kids) = Len(log)

---------------------------------------------------------------------------
(* Properties of the node view *)

\* C4: when the figure was deleted between the creation of its view and the
\* completion of the image load, img.onload drops the update: it raises no
\* error, dispatches no transaction and leaves the document as it was
C4_DeletedFigureLoadIsDropped ==
  (lastLoad.fired /\ lastLoad.deleted) =>
    /\ ~lastLoad.threw
    /\ ~lastLoad.dispatched
    /\ doc = lastLoad.docBefore

\* C8: in every state the caption in the attributes of a figure, and so the
\* caption renderHTML writes into data-trix-attachment and
\* data-trix-attributes, is the caption text the figure holds as its content
C8_CaptionAttributeIsCaptionText ==
  \A f \in AllFigures(doc) :
    /\ f.attrs.caption = f.text
    /\ RenderHTML(f).trixAttachment.obj.caption = f.text
    /\ RenderHTML(f).trixAttributes.obj.caption = f.text

\* the attributes img.onload is not meant to write
OtherAttrs == AttrNames \ {"width", "height"}

\* C9: the update img.onload dispatches changes the width and the height of
\* its figure and nothing else: every other attribute has the value it had in
\* the document just before, and every other node is what it was
C9_OnloadWritesOnlyDimensions ==
  (lastLoad.fired /\ lastLoad.dispatched) =>
    /\ \A n \in OtherAttrs : lastLoad.after[n] = lastLoad.before[n]
    /\ \A f \in AllFigures(lastLoad.docBefore) :
         \E g \in AllFigures(doc) :
           /\ g.nid = f.nid
           /\ g.text = f.text
           /\ f.nid # lastLoad.nid => g.attrs = f.attrs
    /\ Len(doc) = Len(lastLoad.docBefore)

\* the upload of a figure advanced after its insertion, and the load of its
\* image then wrote the dimensions
C9_Witness ==
  /\ lastLoad.fired /\ lastLoad.dispatched
  /\ lastLoad.before.progress # ImageAttachment.progress
  /\ lastLoad.before.width = ""
  /\ lastLoad.after.width # ""
  /\ lastLoad.after.progress = lastLoad.before.progress

---------------------------------------------------------------------------
(* Properties of the codec *)

\* C5: parsing the figure renderHTML emits for a node gives the attributes of
\* the node back, field by field
C5_RoundTrip ==
  (codec.fn = "roundTrip" /\ codec.done) => codec.res = codec.arg.attrs

\* the content type the fallback chain names for an element
FallbackContentType(el) ==
  IF "content-type" \in DOMAIN el.wrapper /\ el.wrapper["content-type"] # Empty
  THEN el.wrapper["content-type"]
  ELSE IF /\ el.trixAttachment.kind = "json"
          /\ "contentType" \in DOMAIN el.trixAttachment.obj
          /\ el.trixAttachment.obj.contentType # Empty
       THEN el.trixAttachment.obj.contentType
       ELSE CT_octet

\* C6: parsing contentType never throws and gives the explicit content-type,
\* else the contentType of the JSON in data-trix-attachment, else
\* application/octet-stream, also when the JSON is missing or malformed
C6_ContentTypeNeverThrows ==
  (codec.fn = "parseContentType" /\ codec.done) =>
    /\ ~codec.res.threw
    /\ codec.res.value = FallbackContentType(codec.arg)

\* the content types the specification names as the exact matches
ExactTypes == {S_image, CT_gif, CT_png, CT_jpeg, CT_jpg}

\* the prefixes a subtype the pattern accepts begins with
PreviewablePrefixes == {CT_gif, CT_png, CT_jpeg, CT_jpg}

\* C7 as stated: canPreview is true exactly when the flag is true or the
\* content type is one of image/gif, image/png, image/jpeg, image/jpg, image
C7_CanPreviewExactTypes ==
  (codec.fn = "canPreview" /\ codec.done) =>
    (codec.res <=> (codec.arg.previewable \/ codec.arg.contentType \in ExactTypes))

\* C7: canPreview is true exactly when the flag is true, or the content type
\* is the bare string image, or it begins with image/gif, image/png,
\* image/jpeg or image/jpg
C7_CanPreviewPrefixes ==
  (codec.fn = "canPreview" /\ codec.done) =>
    (codec.res <=>
       \/ codec.arg.previewable
       \/ codec.arg.contentType = S_image
       \/ \E pre \in PreviewablePrefixes : StartsWith(codec.arg.contentType, pre))

\* an accepted type followed by further characters is previewable without the flag
C7_Witness ==
  /\ codec.fn = "canPreview" /\ codec.done
  /\ ~codec.arg.previewable
  /\ codec.arg.contentType = CT_png \o S_x
  /\ codec.res = TRUE

====
